---- MODULE Spec2Model ----
(***************************************************************************)
(* A model of UbuntuImageFetcher ("vibe-coded with Claude/claude-image     *)
(* fetcher.py"): the fingerprint set, the destination directory, one       *)
(* fetch_image call per step, the batch loop of fetch_multiple_images and  *)
(* the start of a new process on the same directory.                       *)
(*                                                                         *)
(* Text (URLs, header values, file names) is a sequence of one-character   *)
(* strings, so that parsing, sanitising and suffixing are computed.        *)
(* A payload is [id, len]: which bytes, and how many of them; a prefix of  *)
(* a payload (a write that stopped early) has the same id and a smaller    *)
(* len.                                                                    *)
(*                                                                         *)
(* Four specifications share the fetch_image action:                       *)
(*   Spec           fetch_image calls on one fetcher, and restarts of the  *)
(*                  process on the directory it left;                      *)
(*   NamingSpec     payloads fetched one after the other from URLs that    *)
(*                  derive the same file name;                             *)
(*   TraversalSpec  one fetch_image call on a URL of slashes and dots;     *)
(*   BatchSpec      main() reading URLs, running fetch_multiple_images     *)
(*                  and display_summary, or being interrupted.             *)
(* DownloaderSpec is fetch_image of image_downloader.py, the second        *)
(* program of the repository, on the same kind of directory.               *)
(*                                                                         *)
(* Left out: a Content-Length that is not a number (int() raises the       *)
(* ValueError the too-large branch raises), the wording of the messages    *)
(* for 404 and 403, the summary of choice 1 of main, and an interrupt      *)
(* that arrives inside fetch_image rather than between two calls.          *)
(***************************************************************************)
EXTENDS Integers, Sequences, FiniteSets, TLC

VARIABLES
    dir,                \* the destination directory: file name -> entry
    downloaded_hashes,  \* self.downloaded_hashes
    pc,                 \* the process: ready, input, batch, returned, summarised,
                        \* interrupted, aborted, dead
    urls,               \* the list handed to fetch_multiple_images
    i,                  \* the loop index of fetch_multiple_images (1-based)
    results,            \* the tally of fetch_multiple_images
    call,               \* the last fetch_image call: its url, response and outcome
    written,            \* history: the files this process created, in order
    attempted,          \* history: the fetch_image calls of this batch, in order
    calls,              \* history: how many fetch_image calls were made in all
    faults,             \* history: how many writes failed or were cut short
    summary             \* what display_summary printed, if it was called

vars == <<dir, downloaded_hashes, pc, urls, i, results, call, written, attempted, calls,
         faults, summary>>
batchVars == <<urls, i, results, attempted, summary>>

----------------------------------------------------------------------------
(* Bounds *)

\* fetch_image calls in one behaviour of Spec
MaxFetches == 2
\* fetch_image calls in one behaviour of NamingSpec
MaxSameName == 3
\* URLs in one batch of BatchSpec
MaxUrls == 2
\* writes that fail or are cut short in one behaviour
MaxFaults == 1
\* fetch_image calls of image_downloader in one behaviour of DownloaderSpec
MaxDownloads == 3
\* characters after http://h in the URLs of TraversalSpec
MaxPathLen == 3

----------------------------------------------------------------------------
(* Text *)

Digits == {"0", "1", "2", "3", "4", "5", "6", "7", "8", "9"}
LowerCase == {"a", "b", "c", "d", "e", "f", "g", "h", "i", "j", "k", "l", "m",
              "n", "o", "p", "q", "r", "s", "t", "u", "v", "w", "x", "y", "z"}
UpperCase == {"A", "B", "C", "D", "E", "F", "G", "H", "I", "J", "K", "L", "M",
              "N", "O", "P", "Q", "R", "S", "T", "U", "V", "W", "X", "Y", "Z"}

\* str.isalnum, on ASCII
IsAlnum(c) == c \in Digits \cup LowerCase \cup UpperCase

\* str.lower, on the upper-case letters the model's headers use
LowerChar(c) ==
    CASE c = "I" -> "i" [] c = "M" -> "m" [] c = "A" -> "a" [] c = "G" -> "g"
      [] c = "E" -> "e" [] c = "P" -> "p" [] c = "N" -> "n" [] c = "J" -> "j"
      [] OTHER -> c
Lower(s) == [k \in 1..Len(s) |-> LowerChar(s[k])]

\* str.startswith
StartsWith(s, prefix) ==
    Len(s) >= Len(prefix) /\ SubSeq(s, 1, Len(prefix)) = prefix

\* str.endswith
EndsWith(s, suffix) ==
    Len(s) >= Len(suffix) /\ SubSeq(s, Len(s) - Len(suffix) + 1, Len(s)) = suffix

\* sub in s
Contains(s, sub) ==
    \E k \in 1..(Len(s) - Len(sub) + 1) : SubSeq(s, k, k + Len(sub) - 1) = sub

\* str.rfind(c) + 1: the last position of c in s, 0 when there is none
RFind(s, c) ==
    LET at == {k \in 1..Len(s) : s[k] = c}
    IN  IF at = {} THEN 0 ELSE CHOOSE k \in at : \A m \in at : m <= k

\* the first position >= from of a character of cs in s, Len(s) + 1 when there is none
FindAny(s, cs, from) ==
    LET at == {k \in from..Len(s) : s[k] \in cs}
    IN  IF at = {} THEN Len(s) + 1 ELSE CHOOSE k \in at : \A m \in at : k <= m

\* str(n) for n >= 0
RECURSIVE ToStr(_)
ToStr(n) ==
    LET d == <<"0", "1", "2", "3", "4", "5", "6", "7", "8", "9">>
    IN  IF n < 10 THEN <<d[n + 1]>> ELSE ToStr(n \div 10) \o <<d[(n % 10) + 1]>>

\* str.replace('www.', ''): every occurrence, left to right
RECURSIVE StripWww(_)
StripWww(s) ==
    IF s = <<>> THEN <<>>
    ELSE IF StartsWith(s, <<"w", "w", "w", ".">>)
         THEN StripWww(SubSeq(s, 5, Len(s)))
         ELSE <<Head(s)>> \o StripWww(Tail(s))

\* urlparse(url), for URLs without ';' parameters: the netloc and the path
UrlParse(url) ==
    LET colon == FindAny(url, {":"}, 1)
        rest == IF colon <= Len(url) THEN SubSeq(url, colon + 1, Len(url)) ELSE url
        hasNetloc == StartsWith(rest, <<"/", "/">>)
        delim == IF hasNetloc THEN FindAny(rest, {"/", "?", "#"}, 3) ELSE 1
        afterNet == SubSeq(rest, delim, Len(rest))
    IN  [netloc |-> IF hasNetloc THEN SubSeq(rest, 3, delim - 1) ELSE <<>>,
         path |-> SubSeq(afterNet, 1, FindAny(afterNet, {"?", "#"}, 1) - 1)]

\* os.path.basename
Basename(path) == SubSeq(path, RFind(path, "/") + 1, Len(path))

\* os.path.splitext of a path whose last component is filename: the extension
\* starts at the last dot, unless only dots precede it in the component
SplitExt(filename) ==
    LET dot == RFind(filename, ".")
        real == \E k \in 1..(dot - 1) : filename[k] # "."
    IN  IF dot > 0 /\ real
        THEN <<SubSeq(filename, 1, dot - 1), SubSeq(filename, dot, Len(filename))>>
        ELSE <<filename, <<>>>>

----------------------------------------------------------------------------
(* Content types *)

CT_PNG == <<"i", "m", "a", "g", "e", "/", "p", "n", "g">>
CT_JPEG == <<"I", "m", "a", "g", "e", "/", "J", "P", "E", "G">>
CT_HTML == <<"t", "e", "x", "t", "/", "h", "t", "m", "l">>

\* content_type.startswith('image/')
IsImageType(content_type) ==
    StartsWith(content_type, <<"i", "m", "a", "g", "e", "/">>)

\* mimetypes.guess_extension on the model's types; <<>> stands for None
GuessExtension(content_type) ==
    CASE content_type = CT_PNG -> <<".", "p", "n", "g">>
      [] content_type = Lower(CT_JPEG) -> <<".", "j", "p", "g">>
      [] content_type = CT_HTML -> <<".", "h", "t", "m", "l">>
      [] OTHER -> <<>>

----------------------------------------------------------------------------
(* Payloads, fingerprints, directory entries *)

\* 500 bytes, exactly 10 MiB, and 11,000,000 bytes
PA == [id |-> "A", len |-> 500]
PB == [id |-> "B", len |-> 10485760]
PBig == [id |-> "C", len |-> 11000000]
Payloads == {PA, PB, PBig}
NoBody == [id |-> "", len |-> 0]

\* the first k bytes of payload p
Prefix(p, k) == [id |-> p.id, len |-> k]

\* hashlib.md5(content).hexdigest(): a function of the bytes, taken to be
\* collision-free
Md5(content) == [md5 |-> content]

RegularFile(content) == [isfile |-> TRUE, readable |-> TRUE, content |-> content]
UnreadableFile(content) == [isfile |-> TRUE, readable |-> FALSE, content |-> content]

----------------------------------------------------------------------------
(* Inputs *)

\* http://h/a.p and http://g/a.p derive the same file name; http://www.h/ has none
U1 == <<"h", "t", "t", "p", ":", "/", "/", "h", "/", "a", ".", "p">>
U2 == <<"h", "t", "t", "p", ":", "/", "/", "g", "/", "a", ".", "p">>
U3 == <<"h", "t", "t", "p", ":", "/", "/", "w", "w", "w", ".", "h", "/">>
Urls == {U1, U2}
SameNameUrls == {U1, U2}
BatchUrls == {U1, U3}

\* int(time.time()) at the moment a name is generated
Timestamps == {7, 8}

\* what session.get and the server can answer; clen is <<>> (no Content-Length)
\* or <<n>> (Content-Length: n)
Resp(kind, ctype, clen, body) ==
    [kind |-> kind, ctype |-> ctype, clen |-> clen, body |-> body]
Responses ==
    { Resp("timeout", <<>>, <<>>, NoBody),
      Resp("connerr", <<>>, <<>>, NoBody),
      Resp("http", <<>>, <<>>, NoBody),
      Resp("ok", CT_PNG, <<>>, PA),
      Resp("ok", CT_HTML, <<500>>, PA),
      Resp("ok", CT_JPEG, <<10485760>>, PB),
      Resp("ok", CT_PNG, <<10485761>>, PBig),
      Resp("ok", CT_PNG, <<11000000>>, PBig),
      Resp("ok", CT_PNG, <<>>, PBig),
      Resp("ok", CT_PNG, <<500>>, PBig) }

\* how open(filepath, 'wb') and f.write(content) can end: the write completes; open
\* raises OSError; write raises OSError after k bytes; the process is killed
\* after k bytes
WriteEnds(content) ==
    {<<"ok", content.len>>, <<"open", 0>>}
        \cup {<<"write", k>> : k \in {0, content.len \div 2}}
        \cup {<<"kill", content.len \div 2>>}
Faulty(end) == end[1] # "ok"

\* the directory when the first process starts
A1P == <<"a", "_", "1", ".", "p">>
InitialDirs ==
    { [n \in {} |-> RegularFile(PA)],
      [n \in {A1P} |-> UnreadableFile(PB)] }

----------------------------------------------------------------------------
(* UbuntuImageFetcher *)

\* the 10 of "if size_mb > 10"
LimitMB == 10

\* a slip of the comparison: the limit itself is refused
SizeAtOrOverLimit(content_length) == content_length >= LimitMB * (1024 * 1024)

\* size_mb = int(content_length) / (1024 * 1024); size_mb > 10. The division by
\* 2^20 is exact in a double for every length below 2^53.
SizeOverLimit(content_length) == content_length > LimitMB * (1024 * 1024)

\* _get_content_info: the exception it raises ("none": it returns)
GetContentInfo(resp) ==
    IF resp.clen # <<>> /\ SizeOverLimit(resp.clen[1]) THEN "ValueError" ELSE "none"

\* session.get(url, timeout=15, stream=True); response.raise_for_status()
Request(resp) ==
    CASE resp.kind = "timeout" -> "Timeout"
      [] resp.kind = "connerr" -> "ConnectionError"
      [] resp.kind = "http" -> "HTTPError"
      [] OTHER -> "none"

\* a slip of the filter: the name is kept as it is
NoSanitize(filename) == filename

\* "".join(c for c in filename if c.isalnum() or c in '._-')
Sanitize(filename) ==
    SelectSeq(filename, LAMBDA c : IsAlnum(c) \/ c \in {".", "_", "-"})

\* _generate_filename
GenerateFilename(url, content_type, timestamp) ==
    LET parsed_url == UrlParse(url)
        basename == Basename(parsed_url.path)
        guessed == GuessExtension(content_type)
        extension == IF guessed # <<>> THEN guessed ELSE <<".", "j", "p", "g">>
        domain == StripWww(parsed_url.netloc)
        filename == IF basename = <<>> \/ RFind(basename, ".") = 0
                    THEN domain \o <<"_">> \o ToStr(timestamp) \o extension
                    ELSE basename
    IN  Sanitize(filename)

\* a slip of the test: nothing is ever taken for a duplicate
NeverDuplicate(content) == FALSE

\* _is_duplicate: the test (the branch that records the hash is in FetchImage)
IsDuplicate(content) == Md5(content) \in downloaded_hashes

\* os.path.exists(os.path.join(self.directory, filename)): an entry of the
\* directory, or the directory itself (empty name, ".") or its parent ("..")
PathExists(filename) ==
    filename \in DOMAIN dir \/ filename \in {<<>>, <<".">>, <<".", ".">>}

\* a slip of the suffix: it is put after the extension
SuffixAfterExt(original, counter) == original \o <<"_">> \o ToStr(counter)

\* name, ext = os.path.splitext(original_filepath); f"{name}_{counter}{ext}"
Suffixed(original, counter) ==
    LET parts == SplitExt(original)
    IN  parts[1] \o <<"_">> \o ToStr(counter) \o parts[2]

\* the while loop of fetch_image that makes the path unique
RECURSIVE UniqueLoop(_, _, _)
UniqueLoop(original, filepath, counter) ==
    IF PathExists(filepath)
    THEN UniqueLoop(original, Suffixed(original, counter), counter + 1)
    ELSE filepath
\* a slip of the loop: the candidate is used whether or not it exists
FirstPath(filename) == filename

UniquePath(filename) == UniqueLoop(filename, filename, 1)

\* the except clauses of fetch_image: the outcome reported for an exception
Handler(exc) ==
    CASE exc = "Timeout" -> "Timeout"
      [] exc = "ConnectionError" -> "ConnectionError"
      [] exc = "HTTPError" -> "HttpError"
      [] exc = "ValueError" -> "TooLarge"
      [] OTHER -> "Unexpected"

\* a narrower last clause: an OSError of the write is not caught
CaughtNarrow(exc) == exc # "OSError"

\* "except Exception" is the last clause: every exception of the body is caught
Caught(exc) == TRUE

NoCall == [url |-> <<>>, resp |-> Resp("none", <<>>, <<>>, NoBody), out |-> "none",
           path |-> <<>>, stages |-> <<>>]

\* a slip of the order: the name is generated before the duplicate check
NamingFirst == <<"Requesting", "Classifying", "Naming", "DedupChecking", "Persisting">>

\* the body of the try of fetch_image, top to bottom: session.get and
\* raise_for_status; _get_content_info; _is_duplicate; _generate_filename and the
\* uniqueness loop; open and write
StageOrder == <<"Requesting", "Classifying", "DedupChecking", "Naming", "Persisting">>

\* the stages a call entered when it left the body in its n-th
StagesTo(n) == SubSeq(StageOrder, 1, n)

\* fetch_image ends: it returns True (Success) or False, or is left by an exception
\* no clause catches. path is the file it opened, <<>> when it opened none; n is
\* the stage the body was left in.
Return(url, resp, exc, out, path, n) ==
    /\ call' = [url |-> url, resp |-> resp, path |-> path, stages |-> StagesTo(n),
                out |-> IF exc = "none" THEN out ELSE Handler(exc)]
    /\ pc' = IF exc = "none" \/ Caught(exc) THEN pc ELSE "aborted"

\* a slip of the write: the last byte is dropped
WroteShort(content, end) == Prefix(content, end[2] - 1)

\* f.write(content): the bytes that are in the file when the write has ended
Wrote(content, end) == IF end[1] = "ok" THEN content ELSE Prefix(content, end[2])

\* with open(filepath, 'wb') as f: f.write(content)
WriteFile(url, resp, candidate, filepath, end) ==
    LET content == resp.body
        stored == Wrote(content, end)
        entry == [url |-> url, cand |-> candidate, path |-> filepath,
                  content |-> stored, complete |-> end[1] = "ok"]
    IN  IF end[1] = "open"
        THEN /\ UNCHANGED <<dir, written>>
             /\ Return(url, resp, "OSError", "", filepath, 5)
        ELSE /\ dir' = [n \in DOMAIN dir \cup {filepath} |->
                          IF n = filepath THEN RegularFile(stored) ELSE dir[n]]
             /\ written' = Append(written, entry)
             /\ CASE end[1] = "ok" -> Return(url, resp, "none", "Success", filepath, 5)
                  [] end[1] = "write" -> Return(url, resp, "OSError", "", filepath, 5)
                  [] OTHER ->
                       /\ call' = [url |-> url, resp |-> resp, out |-> "Killed",
                                   path |-> filepath, stages |-> StagesTo(5)]
                       /\ pc' = "dead"

\* whether fetch_image(url) gets as far as opening a file
ReachesWrite(resp) ==
    Request(resp) = "none" /\ GetContentInfo(resp) = "none" /\ ~IsDuplicate(resp.body)

\* fetch_image(url), given what the network answers, how the write ends and the
\* clock
FetchImage(url, resp, end, timestamp) ==
    /\ calls' = calls + 1
    /\ faults' = IF ReachesWrite(resp) /\ Faulty(end) THEN faults + 1 ELSE faults
    /\ IF Request(resp) # "none"
       THEN /\ Return(url, resp, Request(resp), "", <<>>, 1)
            /\ UNCHANGED <<dir, downloaded_hashes, written>>
       ELSE IF GetContentInfo(resp) # "none"
       THEN /\ Return(url, resp, GetContentInfo(resp), "", <<>>, 2)
            /\ UNCHANGED <<dir, downloaded_hashes, written>>
       ELSE IF IsDuplicate(resp.body)
       THEN /\ Return(url, resp, "none", "Duplicate", <<>>, 3)
            /\ UNCHANGED <<dir, downloaded_hashes, written>>
       ELSE LET filename == GenerateFilename(url, Lower(resp.ctype), timestamp)
            IN  /\ downloaded_hashes' = downloaded_hashes \cup {Md5(resp.body)}
                /\ WriteFile(url, resp, filename, UniquePath(filename), end)

\* _load_existing_hashes: the sets it can leave in downloaded_hashes, over the
\* orders os.listdir can give. The try encloses the loop, so the first file that
\* cannot be read ends the scan.
RECURSIVE LoadExistingHashes(_, _)
LoadExistingHashes(left, hashes) ==
    IF left = {} THEN {hashes}
    ELSE UNION { IF ~dir[n].isfile
                 THEN LoadExistingHashes(left \ {n}, hashes)
                 ELSE IF ~dir[n].readable
                 THEN {hashes}
                 ELSE LoadExistingHashes(left \ {n}, hashes \cup {Md5(dir[n].content)})
                 : n \in left }

ZeroResults == [successful |-> 0, failed |-> 0, duplicates |-> 0]

\* display_summary was not called
NoSummary == [shown |-> FALSE, successful |-> 0, failed |-> 0, total_files |-> 0]

\* UbuntuImageFetcher(): the state after __init__, on the directory as it is
Construct ==
    /\ downloaded_hashes' \in LoadExistingHashes(DOMAIN dir, {})
    /\ call' = NoCall
    /\ written' = <<>>
    /\ pc' = "ready"
    /\ urls' = <<>>
    /\ i' = 1
    /\ results' = ZeroResults
    /\ attempted' = <<>>
    /\ summary' = NoSummary

----------------------------------------------------------------------------
(* The fetcher, called any number of times, over restarts of the process *)

Init ==
    /\ dir \in InitialDirs
    /\ downloaded_hashes \in LoadExistingHashes(DOMAIN dir, {})
    /\ pc = "ready"
    /\ urls = <<>>
    /\ i = 1
    /\ results = ZeroResults
    /\ call = NoCall
    /\ written = <<>>
    /\ attempted = <<>>
    /\ calls = 0
    /\ faults = 0
    /\ summary = NoSummary

\* fetch_image calls with the inputs drawn from the given sets; the way the write
\* ends is an input only of a call that writes
FetchOf(urlSet, respSet) ==
    \E url \in urlSet, resp \in respSet, timestamp \in Timestamps :
        \E end \in (IF ReachesWrite(resp) THEN WriteEnds(resp.body) ELSE {<<"ok", 0>>}) :
            /\ Faulty(end) => faults < MaxFaults
            /\ FetchImage(url, resp, end, timestamp)

\* one fetch_image call on the running fetcher
Fetch ==
    /\ pc = "ready"
    /\ calls < MaxFetches
    /\ FetchOf(Urls, Responses)
    /\ UNCHANGED batchVars

\* the process has ended (or was killed) and main() is run again
Restart ==
    /\ pc \in {"ready", "dead", "returned", "summarised", "interrupted", "aborted"}
    /\ calls > 0
    /\ Construct
    /\ UNCHANGED <<dir, calls, faults>>

Next == Fetch \/ Restart

Spec == Init /\ [][Next]_vars

----------------------------------------------------------------------------
(* Payloads fetched one after the other from URLs that derive the same name *)

\* the responses that deliver a payload to fetch_image
Delivered == {r \in Responses : Request(r) = "none" /\ GetContentInfo(r) = "none"}

SameNameFetch ==
    /\ pc = "ready"
    /\ calls < MaxSameName
    /\ FetchOf(SameNameUrls, Delivered)
    /\ UNCHANGED batchVars

NamingNext == SameNameFetch

NamingSpec == Init /\ [][NamingNext]_vars
----------------------------------------------------------------------------
(* One fetch_image call with a URL made to leave the directory *)

\* the texts of up to n characters over the given characters
RECURSIVE Texts(_, _)
Texts(chars, n) ==
    IF n = 0 THEN {<<>>}
    ELSE LET shorter == Texts(chars, n - 1)
         IN  shorter \cup {<<c>> \o t : c \in chars, t \in {u \in shorter : Len(u) = n - 1}}

\* http://h followed by any text of slashes, dots, backslashes and the letter a
HostileUrls ==
    { <<"h", "t", "t", "p", ":", "/", "/", "h">> \o t :
        t \in Texts({"/", ".", "\\", "a"}, MaxPathLen) }

\* the answers that deliver the 500-byte payload
SmallDelivered == {r \in Delivered : r.body = PA}

\* the first fetch_image call of a fetcher, on a URL of HostileUrls
HostileFetch ==
    /\ pc = "ready"
    /\ calls = 0
    /\ FetchOf(HostileUrls, SmallDelivered)
    /\ UNCHANGED batchVars

TraversalNext == HostileFetch

TraversalSpec == Init /\ [][TraversalNext]_vars

----------------------------------------------------------------------------
(* main(), choice 2: the URLs are read, then fetch_multiple_images runs *)

\* urls.append(url) for a non-empty line of input
ReadUrl ==
    /\ pc \in {"ready", "input"}
    /\ Len(urls) < MaxUrls
    /\ \E url \in BatchUrls : urls' = Append(urls, url)
    /\ pc' = "input"
    /\ UNCHANGED <<dir, downloaded_hashes, i, results, call, written, attempted, calls,
                   faults, summary>>

\* the empty line: fetch_multiple_images(urls) is entered
FetchMultipleImages ==
    /\ pc = "input"
    /\ urls # <<>>
    /\ results' = ZeroResults
    /\ i' = 1
    /\ pc' = "batch"
    /\ UNCHANGED <<dir, downloaded_hashes, urls, call, written, attempted, calls, faults,
                   summary>>

\* a slip of the tally: every call is counted as fetched
TallyAllFetched(success) == [results EXCEPT !.successful = @ + 1]

\* results after fetch_image returned success or not
Tally(success) ==
    IF success
    THEN [results EXCEPT !.successful = @ + 1]
    ELSE [results EXCEPT !.failed = @ + 1]

\* one iteration of the loop of fetch_multiple_images
BatchStep ==
    /\ pc = "batch"
    /\ i <= Len(urls)
    /\ FetchOf({urls[i]}, Responses)
    /\ attempted' = Append(attempted, [url |-> call'.url, out |-> call'.out])
    /\ IF pc' = "batch"
       THEN /\ results' = Tally(call'.out = "Success")
            /\ i' = i + 1
       ELSE UNCHANGED <<results, i>>
    /\ UNCHANGED <<urls, summary>>

\* the loop is over: return results
BatchReturn ==
    /\ pc = "batch"
    /\ i > Len(urls)
    /\ pc' = "returned"
    /\ UNCHANGED <<dir, downloaded_hashes, urls, i, results, call, written, attempted,
                   calls, faults, summary>>

\* the regular files of the directory, as display_summary counts them
TotalFiles == Cardinality({n \in DOMAIN dir : dir[n].isfile})

\* fetcher.display_summary(results), with the dict fetch_multiple_images returned
DisplaySummary ==
    /\ pc = "returned"
    /\ summary' = [shown |-> TRUE, successful |-> results.successful,
                   failed |-> results.failed, total_files |-> TotalFiles]
    /\ pc' = "summarised"
    /\ UNCHANGED <<dir, downloaded_hashes, urls, i, results, call, written, attempted,
                   calls, faults>>

\* Ctrl-C between two fetch_image calls of the loop (in time.sleep or a print):
\* KeyboardInterrupt leaves fetch_multiple_images without a return value, skips
\* display_summary and is caught by the except clause of main, which prints its
\* farewell and ends. results is kept here as the tally the loop had reached.
Interrupt ==
    /\ pc = "batch"
    /\ pc' = "interrupted"
    /\ UNCHANGED <<dir, downloaded_hashes, urls, i, results, call, written, attempted,
                   calls, faults, summary>>

BatchNext ==
    ReadUrl \/ FetchMultipleImages \/ BatchStep \/ BatchReturn \/ DisplaySummary \/ Interrupt

BatchSpec == Init /\ [][BatchNext]_vars
----------------------------------------------------------------------------
(* image_downloader.py: fetch_image on the same kind of directory *)

VALID_EXTENSIONS ==
    { <<".", "j", "p", "g">>, <<".", "j", "p", "e", "g">>, <<".", "p", "n", "g">>,
      <<".", "g", "i", "f">>, <<".", "b", "m", "p">>, <<".", "w", "e", "b", "p">> }

\* get_extension_from_content_type
GetExtensionFromContentType(content_type) ==
    LET t == Lower(content_type)
    IN  CASE t = <<"i", "m", "a", "g", "e", "/", "j", "p", "e", "g">> -> <<".", "j", "p", "g">>
          [] t = <<"i", "m", "a", "g", "e", "/", "p", "n", "g">> -> <<".", "p", "n", "g">>
          [] t = <<"i", "m", "a", "g", "e", "/", "g", "i", "f">> -> <<".", "g", "i", "f">>
          [] t = <<"i", "m", "a", "g", "e", "/", "b", "m", "p">> -> <<".", "b", "m", "p">>
          [] t = <<"i", "m", "a", "g", "e", "/", "w", "e", "b", "p">> -> <<".", "w", "e", "b", "p">>
          [] OTHER -> <<".", "j", "p", "g">>

\* "downloaded_image.jpg"
DownloadedImageJpg ==
    <<"d", "o", "w", "n", "l", "o", "a", "d", "e", "d", "_", "i", "m", "a", "g", "e",
      ".", "j", "p", "g">>

\* get_filename: the extension test is indented under "if not filename", so it is
\* applied to the generated name only
GetFilename(url, content_type) ==
    LET filename == Basename(UrlParse(url).path)
    IN  IF filename = <<>>
        THEN IF ~\E ext \in VALID_EXTENSIONS : EndsWith(Lower(DownloadedImageJpg), ext)
             THEN DownloadedImageJpg \o GetExtensionFromContentType(content_type)
             ELSE DownloadedImageJpg
        ELSE filename

\* hashlib.sha256(content).hexdigest(): a function of the bytes, taken to be
\* collision-free
Sha256(content) == [sha256 |-> content]

\* a slip of the test: a taken name is a duplicate whatever its content
NameTaken(filepath, content) == filepath \in DOMAIN dir

\* file_already_exists, when the existing file can be read
FileAlreadyExists(filepath, content) ==
    IF filepath \notin DOMAIN dir
    THEN FALSE
    ELSE Sha256(dir[filepath].content) = Sha256(content)

\* open(filepath, "rb") of file_already_exists raises
ExistingUnreadable(filepath) ==
    filepath \in DOMAIN dir /\ ~dir[filepath].readable

\* image_downloader.fetch_image ends, having opened path (<<>>: none) for writing
DownloaderReturn(url, resp, out, path) ==
    /\ call' = [url |-> url, resp |-> resp, path |-> path, stages |-> <<>>, out |-> out]
    /\ pc' = IF out = "Killed" THEN "dead" ELSE pc

\* whether image_downloader.fetch_image(url) gets as far as opening the file for
\* writing
DownloaderWrites(url, resp) ==
    /\ Request(resp) = "none"
    /\ Contains(Lower(resp.ctype), <<"i", "m", "a", "g", "e">>)
    /\ ~ExistingUnreadable(GetFilename(url, resp.ctype))
    /\ ~FileAlreadyExists(GetFilename(url, resp.ctype), resp.body)

\* image_downloader.fetch_image(url), given what the network answers and how the
\* write ends. open(filepath, "wb") truncates the file that is there.
DownloaderFetchImage(url, resp, end) ==
    LET filename == GetFilename(url, resp.ctype)
        content == resp.body
        writes == DownloaderWrites(url, resp)
    IN  /\ calls' = calls + 1
        /\ faults' = IF writes /\ Faulty(end) THEN faults + 1 ELSE faults
        /\ IF writes /\ end[1] # "open"
           THEN /\ dir' = [n \in DOMAIN dir \cup {filename} |->
                             IF n = filename THEN RegularFile(Wrote(content, end))
                             ELSE dir[n]]
                /\ written' = Append(written,
                                     [url |-> url, cand |-> filename, path |-> filename,
                                      content |-> Wrote(content, end),
                                      complete |-> end[1] = "ok"])
                /\ DownloaderReturn(url, resp,
                                    CASE end[1] = "ok" -> "Success"
                                      [] end[1] = "write" -> "Error"
                                      [] OTHER -> "Killed",
                                    filename)
           ELSE /\ UNCHANGED <<dir, written>>
                /\ DownloaderReturn(url, resp,
                                    CASE Request(resp) # "none" -> "ConnectionError"
                                      [] ~Contains(Lower(resp.ctype),
                                                   <<"i", "m", "a", "g", "e">>) -> "NotAnImage"
                                      [] ExistingUnreadable(filename) -> "Error"
                                      [] FileAlreadyExists(filename, content) -> "Duplicate"
                                      [] OTHER -> "Error",
                                    IF writes THEN filename ELSE <<>>)

\* URLs in one run of image_downloader.main
DownloaderUrls == {U1, U3}

\* the answers that differ for image_downloader: it reads no Content-Length, has
\* no size limit, and one except clause takes every RequestException
DownloaderResponses == {r \in Responses : r.body # PBig /\ r.kind \in {"timeout", "ok"}}

\* one iteration of "for url in urls: fetch_image(url)" of image_downloader.main
DownloaderFetch ==
    /\ pc = "ready"
    /\ calls < MaxDownloads
    /\ \E url \in DownloaderUrls, resp \in DownloaderResponses :
          \E end \in (IF DownloaderWrites(url, resp) THEN WriteEnds(resp.body)
                       ELSE {<<"ok", 0>>}) :
              /\ Faulty(end) => faults < MaxFaults
              /\ DownloaderFetchImage(url, resp, end)
    /\ UNCHANGED <<downloaded_hashes, batchVars>>

DownloaderNext == DownloaderFetch

DownloaderSpec == Init /\ [][DownloaderNext]_vars

----------------------------------------------------------------------------
(* Properties *)

\* the cap of the specification, 10 MiB = 10,485,760 bytes
CapBytes == 10 * 1024 * 1024

\* this step is a fetch_image call
IsFetch == calls' = calls + 1

\* the response of the call of this step delivered its payload to fetch_image: the
\* status was a success and no length over the cap was declared
PayloadDelivered ==
    /\ call'.resp.kind = "ok"
    /\ call'.resp.clen = <<>> \/ call'.resp.clen[1] <= CapBytes

\* the files this process stored completely with the given content
StoredCopies(log, content) ==
    {k \in 1..Len(log) : log[k].complete /\ log[k].content = content}

\* C1: once this fetcher has persisted a payload, a later fetch_image that is
\* delivered the same bytes, from whatever URL, is reported as a duplicate, writes
\* nothing and records nothing, and the payload stays persisted exactly once.
C1_DuplicateWritesNothing ==
    [][ (IsFetch /\ PayloadDelivered /\ StoredCopies(written, call'.resp.body) # {})
          => /\ call'.out = "Duplicate"
             /\ call'.path = <<>>
             /\ dir' = dir
             /\ written' = written
             /\ downloaded_hashes' = downloaded_hashes
             /\ Cardinality(StoredCopies(written', call'.resp.body)) = 1 ]_vars

\* C1, its case: a duplicate outcome for bytes this process stored from another URL
C1_Witness ==
    /\ call.out = "Duplicate"
    /\ \E k \in StoredCopies(written, call.resp.body) : written[k].url # call.url

\* C2: a successful response whose declared type does not start with "image/" (and
\* whose declared length is within the cap) ends in NotAnImage: no file is written
\* and no fingerprint is recorded.
C2_NotAnImageRejected ==
    [][ (IsFetch /\ PayloadDelivered /\ ~IsImageType(Lower(call'.resp.ctype)))
          => /\ call'.out = "NotAnImage"
             /\ dir' = dir
             /\ downloaded_hashes' = downloaded_hashes ]_vars

\* C3: a successful response that declares a Content-Length over 10,485,760 ends in
\* TooLarge with the directory and the fingerprint set unchanged; one that declares
\* exactly 10,485,760 is not refused as too large.
C3_DeclaredTooLarge ==
    [][ (IsFetch /\ call'.resp.kind = "ok" /\ call'.resp.clen # <<>>)
          => /\ call'.resp.clen[1] > CapBytes
                  => /\ call'.out = "TooLarge"
                     /\ call'.path = <<>>
                     /\ dir' = dir
                     /\ downloaded_hashes' = downloaded_hashes
             /\ call'.resp.clen[1] = CapBytes => call'.out # "TooLarge" ]_vars

\* C3, its case: a declared length of 11,000,000 was refused
C3_Witness ==
    /\ call.resp.clen = <<11000000>>
    /\ call.out = "TooLarge"

\* C4: a successful response whose real payload is larger than 10 MiB, with no
\* Content-Length or one that declares a smaller value, ends in TooLarge and no
\* file is written.
C4_ActualSizeCapped ==
    [][ (/\ IsFetch
         /\ call'.resp.kind = "ok"
         /\ call'.resp.body.len > CapBytes
         /\ call'.resp.clen = <<>> \/ call'.resp.clen[1] < call'.resp.body.len)
          => /\ call'.out = "TooLarge"
             /\ dir' = dir ]_vars

\* C5: no step overwrites a file: every entry of the directory is still there with
\* the same content after the step, and the path fetch_image opens for writing was
\* not in the directory (nor the directory itself) before the step.
C5_NeverOverwrites ==
    [][ /\ \A n \in DOMAIN dir : n \in DOMAIN dir' /\ dir'[n] = dir[n]
        /\ (IsFetch /\ call'.path # <<>>)
              => /\ call'.path \notin DOMAIN dir
                 /\ call'.path \notin {<<".">>, <<".", ".">>} ]_vars

\* C5, its case: the candidate name was taken and the file went to another name
C5_Witness ==
    /\ call.out = "Success"
    /\ written # <<>>
    /\ written[Len(written)].cand \in DOMAIN dir
    /\ written[Len(written)].path # written[Len(written)].cand
    /\ dir[written[Len(written)].path].content = call.resp.body

\* C12: after a fetch_image call that returns success for an image payload within
\* the cap, the directory has exactly one new entry, a regular file whose content
\* is the fetched bytes, and every other entry is as it was.
C12_RoundTrip ==
    [][ (/\ IsFetch
         /\ call'.out = "Success"
         /\ IsImageType(Lower(call'.resp.ctype))
         /\ call'.resp.body.len <= CapBytes)
          => /\ \E n \in DOMAIN dir' \ DOMAIN dir :
                  /\ DOMAIN dir' = DOMAIN dir \cup {n}
                  /\ dir'[n] = RegularFile(call'.resp.body)
             /\ \A m \in DOMAIN dir : dir'[m] = dir[m] ]_vars

\* C12, its case: an image of exactly 10 MiB was stored next to another file
C12_Witness ==
    /\ call.out = "Success"
    /\ IsImageType(Lower(call.resp.ctype))
    /\ call.resp.body = PB
    /\ dir[call.path] = RegularFile(PB)
    /\ Cardinality(DOMAIN dir) >= 2

\* the place of a stage in the lifecycle
Rank(stage) ==
    CASE stage = "Requesting" -> 1
      [] stage = "Classifying" -> 2
      [] stage = "DedupChecking" -> 3
      [] stage = "Naming" -> 4
      [] stage = "Persisting" -> 5

Recognized(name) == \E ext \in VALID_EXTENSIONS : EndsWith(Lower(name), ext)

\* C15: for a URL whose path base name is empty or has no recognized image
\* extension, the name resolved for the file starts with the URL's host and ends
\* in a recognized image extension.
C15_ResolvedExtension ==
    \A k \in 1..Len(written) :
        LET parsed == UrlParse(written[k].url)
            base == Basename(parsed.path)
        IN  (base = <<>> \/ ~Recognized(base))
              => /\ Recognized(written[k].cand)
                 /\ StartsWith(written[k].cand, StripWww(parsed.netloc))

\* C17: every fingerprint of downloaded_hashes is the fingerprint of a file that
\* is in the directory, so a fetch that failed has left the set as it was.
C17_HashesOnlyOfFiles ==
    \A h \in downloaded_hashes :
        \E n \in DOMAIN dir : dir[n].isfile /\ Md5(dir[n].content) = h

----------------------------------------------------------------------------
(* Properties of TraversalSpec *)

\* C16: the path a fetch_image call opens is a direct entry of the directory: its
\* name is not empty, consists of alphanumerics, '.', '_' and '-' only, and is
\* neither '.' nor '..'; and a file that was written is that entry.
C16_StaysInDirectory ==
    Len(call.stages) = 5
      => /\ call.path # <<>>
         /\ \A k \in 1..Len(call.path) :
               call.path[k] \in Digits \cup LowerCase \cup UpperCase \cup {".", "_", "-"}
         /\ call.path \notin {<<".">>, <<".", ".">>}
         /\ call.out = "Success" => call.path \in DOMAIN dir

\* C16, its case: the URL http://h/.. was fetched and the file went to .._1
C16_Witness ==
    /\ call.out = "Success"
    /\ call.url = <<"h", "t", "t", "p", ":", "/", "/", "h", "/", ".", ".">>
    /\ call.path = <<".", ".", "_", "1">>
    /\ call.path \in DOMAIN dir

----------------------------------------------------------------------------
(* Properties of NamingSpec: every URL derives the candidate a.p *)

\* a.p, a_1.p, a_2.p, ...: the k-th name of the sequence, k = 0 for the candidate
NameAP(k) ==
    IF k = 0 THEN <<"a", ".", "p">>
    ELSE <<"a", "_">> \o ToStr(k) \o <<".", "p">>

\* the names the directory held before this process created any file
NamesAtStart == DOMAIN dir \ {written[k].path : k \in 1..Len(written)}

\* C6 as stated: three or more distinct payloads, stored from URLs that derive a.p
\* into a directory that did not hold a.p, are stored as a.p, a_1.p, a_2.p, ... in
\* fetch order.
C6_AsStated ==
    (/\ Len(written) >= 3
     /\ \A k \in 1..Len(written) : written[k].complete
     /\ NameAP(0) \notin NamesAtStart)
      => \A k \in 1..Len(written) : written[k].path = NameAP(k - 1)

\* C6, amended: when the directory held none of a.p, a_1.p, ..., a_(n-1).p at the
\* start, the n files the fetches create are a.p, a_1.p, ..., a_(n-1).p, in fetch
\* order, one for each fetch that opens a file.
C6_IncrementingSuffixes ==
    (\A k \in 0..(Len(written) - 1) : NameAP(k) \notin NamesAtStart)
      => \A k \in 1..Len(written) :
            /\ written[k].cand = NameAP(0)
            /\ written[k].path = NameAP(k - 1)
            /\ written[k].path \in DOMAIN dir

\* C6, its case: three distinct payloads stored as a.p, a_1.p and a_2.p
C6_Witness ==
    /\ Len(written) = 3
    /\ \A k \in 1..3 : written[k].complete /\ written[k].path = NameAP(k - 1)
    /\ \A j, k \in 1..3 : j # k => dir[NameAP(j - 1)].content # dir[NameAP(k - 1)].content

----------------------------------------------------------------------------
(* Properties of BatchSpec *)

\* the calls of the batch that ended with one of the given outcomes
Ended(outs) == {k \in 1..Len(attempted) : attempted[k].out \in outs}

\* C7: in the tally fetch_multiple_images returns, the duplicates are counted as
\* duplicates and not as failures, and the three counts add up to the number of URLs.
C7_DuplicatesTallied ==
    pc = "returned"
      => /\ results.successful = Cardinality(Ended({"Success"}))
         /\ results.duplicates = Cardinality(Ended({"Duplicate"}))
         /\ results.failed = Len(attempted) - Cardinality(Ended({"Success", "Duplicate"}))
         /\ results.successful + results.failed + results.duplicates = Len(urls)

\* C8: whatever way each fetch_image call fails, no exception leaves the loop: the
\* calls made so far are the first URLs of the list, one call each, in order; the
\* loop can always go on; and when it returns, every URL was attempted and counted.
C8_NoErrorAbortsBatch ==
    /\ pc # "aborted"
    /\ Len(attempted) <= Len(urls)
    /\ \A k \in 1..Len(attempted) : attempted[k].url = urls[k]
    /\ pc = "batch" => /\ Len(attempted) = i - 1
                       /\ ENABLED (BatchStep \/ BatchReturn)
    /\ pc = "returned"
          => /\ Len(attempted) = Len(urls)
             /\ results.successful + results.failed + results.duplicates = Len(urls)

\* C8, its case: a batch returned after a filesystem error on its first URL and a
\* network or size error on its second
C8_Witness ==
    /\ pc = "returned"
    /\ Len(attempted) = 2
    /\ attempted[1].out = "Unexpected"
    /\ attempted[2].out \in {"Timeout", "ConnectionError", "HttpError", "TooLarge"}

\* C18: after a batch in which no write failed, the file count display_summary
\* shows is the number of regular files at startup plus the successes it shows,
\* which are the calls that returned success.
C18_TotalFiles ==
    (pc = "summarised" /\ faults = 0)
      => /\ summary.shown
         /\ summary.successful = Cardinality(Ended({"Success"}))
         /\ summary.total_files = Cardinality(NamesAtStart) + summary.successful

\* C18, its case: a batch of a success and a duplicate into a directory of one file
C18_Witness ==
    /\ pc = "summarised"
    /\ faults = 0
    /\ Len(attempted) = 2
    /\ attempted[1].out = "Success"
    /\ attempted[2].out = "Duplicate"
    /\ summary.total_files = 2

\* C11: when the batch has been interrupted after some of its URLs were processed,
\* no further URL is started, and the summary was shown with the tally of the URLs
\* processed before the interrupt.
C11_InterruptReported ==
    (pc = "interrupted" /\ attempted # <<>>)
      => /\ ~ENABLED BatchStep
         /\ summary.shown
         /\ summary.successful = Cardinality(Ended({"Success"}))
         /\ summary.successful + summary.failed = Len(attempted)

----------------------------------------------------------------------------
(* Properties of Spec over restarts *)

\* C9: when the directory holds a readable regular file that this process did not
\* write (a file of an earlier run) with exactly the bytes a fetch_image call is
\* delivered, the call is reported as a duplicate and writes nothing.
C9_RestartDeduplicates ==
    [][ (/\ IsFetch
         /\ PayloadDelivered
         /\ \E n \in DOMAIN dir :
               /\ dir[n].isfile /\ dir[n].readable
               /\ dir[n].content = call'.resp.body
               /\ \A k \in 1..Len(written) : written[k].path # n)
          => /\ call'.out = "Duplicate"
             /\ dir' = dir ]_vars

\* C13: when UbuntuImageFetcher is constructed on a directory in which one regular
\* file cannot be read, downloaded_hashes holds afterwards the fingerprint of
\* every readable regular file of the directory, whatever the listing order.
C13_ScanContinues ==
    [][ (Restart /\ \E u \in DOMAIN dir : dir[u].isfile /\ ~dir[u].readable)
          => \A n \in DOMAIN dir :
                (dir[n].isfile /\ dir[n].readable)
                   => Md5(dir[n].content) \in downloaded_hashes' ]_vars

----------------------------------------------------------------------------
(* Properties of DownloaderSpec *)

\* a fetch of image_downloader got a successful answer whose Content-Type
\* contains "image"
Accepted == call'.resp.kind = "ok" /\ Contains(Lower(call'.resp.ctype), <<"i", "m", "a", "g", "e">>)

\* Fetched_Images/<filename> of the call of this step: the base name of the URL
\* path, downloaded_image.jpg when it is empty
TargetPath ==
    LET base == Basename(UrlParse(call'.url).path)
    IN  IF base = <<>> THEN DownloadedImageJpg ELSE base

\* C19: an accepted fetch of image_downloader is skipped as a duplicate exactly
\* when the target path holds a file with the same bytes, and then nothing
\* changes; otherwise it opens the target path for writing, and when the write
\* completes the target holds the payload (replacing what was there) and every
\* other entry is as it was. Content under another name does not count.
C19_PathKeyedDuplicates ==
    [][ (IsFetch /\ Accepted)
          => /\ call'.out = "Duplicate"
                  <=> (TargetPath \in DOMAIN dir
                         /\ dir[TargetPath].content = call'.resp.body)
             /\ call'.out = "Duplicate" => dir' = dir /\ call'.path = <<>>
             /\ call'.out # "Duplicate"
                  => /\ call'.path = TargetPath
                     /\ call'.out \in {"Success", "Error", "Killed"}
                     /\ \A m \in DOMAIN dir \ {TargetPath} :
                           m \in DOMAIN dir' /\ dir'[m] = dir[m]
                     /\ call'.out = "Success"
                          => /\ DOMAIN dir' = DOMAIN dir \cup {TargetPath}
                             /\ dir'[TargetPath] = RegularFile(call'.resp.body) ]_vars

\* C19, its case: a payload replaced another one under a.p, and the same bytes
\* were stored under downloaded_image.jpg as well
C19_Witness ==
    /\ Len(written) = 3
    /\ \A k \in 1..3 : written[k].complete
    /\ written[1].path = written[2].path
    /\ written[1].content # written[2].content
    /\ written[3].path # written[2].path
    /\ written[3].content = written[2].content
    /\ dir[written[2].path].content = written[2].content
    /\ dir[written[3].path].content = written[2].content

\* C10: no file of the directory ever holds a truncated or empty payload under its
\* final name.
C10_NoPartialFile ==
    \A n \in DOMAIN dir : dir[n].content \in Payloads
====
